---- MODULE Spec2Model ----
(***************************************************************************)
(* cchdo/snapshotter: the snapshot pipeline of cchdo/snapshotter/__main__.py *)
(* as a state machine.  One run of main() is: the eligibility filter and   *)
(* the naming loop (synchronous), the fetch phase (one asyncio task per    *)
(* fetch-list item, interleaving at their await points), and the archive   *)
(* loop.  The download cache directory survives a run, and so does the     *)
(* snapshot directory, which is named by the UTC date of the run.          *)
(*                                                                         *)
(* Strings are TLA+ strings; an expocode is a sequence of one-character    *)
(* strings so that str.replace can be modelled character by character.     *)
(* File contents are sequences of bytes, and sha256 is modelled as an      *)
(* injective encoding of the content (no collisions).                      *)
(***************************************************************************)
EXTENDS Naturals, Sequences, FiniteSets, TLC

(***************************************************************************)
(* Bounds of the model.                                                    *)
(***************************************************************************)
\* references in the file list of the one cruise of a fetch-phase catalog
MaxFetch == 2
\* runs of the program in one behaviour (the cache persists between them)
MaxRuns == 2
\* cruises of a naming catalog
MaxCruises == 2
\* references in the file lists of a naming catalog, all cruises together
MaxRefs == 3
\* fetch-list items of the connector-load catalog
LoadRefs == 21
\* file records of a filter catalog
MaxFiles == 2

(***************************************************************************)
(* Program constants.                                                      *)
(***************************************************************************)
\* aiohttp.TCPConnector(limit=20): the connector built and dropped at line 19
StatedLimit == 20
\* the limit of the default connector of the ClientSession() of line 247
SessionLimit == 100

\* file_exts, lines 21-38
file_exts ==
    (<<"bottle", "cf_netcdf">> :> "_bottle.nc") @@
    (<<"bottle", "exchange">> :> "_hy1.csv") @@
    (<<"bottle", "whp_netcdf">> :> "_nc_hyd.zip") @@
    (<<"bottle", "woce">> :> "hy.txt") @@
    (<<"ctd", "cf_netcdf">> :> "_ctd.nc") @@
    (<<"ctd", "exchange">> :> "_ct1.zip") @@
    (<<"ctd", "whp_netcdf">> :> "_nc_ctd.zip") @@
    (<<"ctd", "woce">> :> "ct.zip") @@
    (<<"large_volume", "woce">> :> "lv.txt") @@
    (<<"documentation", "pdf">> :> "do.pdf") @@
    (<<"documentation", "text">> :> "do.txt") @@
    (<<"summary", "woce">> :> "su.txt")

(***************************************************************************)
(* Contents and digests.                                                   *)
(***************************************************************************)
\* the byte values of the model
Bytes == {1, 2}

\* file_digest(f, "sha256").hexdigest(): injective on byte sequences
RECURSIVE Digest(_)
Digest(data) ==
    IF data = <<>> THEN 1
    ELSE Head(data) + 3 * Digest(Tail(data))

\* the bodies a GET may deliver: the published content of either file, which
\* is a corrupt download for the other one
Bodies == {<<1>>, <<2, 2>>}

H1 == Digest(<<2, 2>>)
H2 == Digest(<<1>>)
Hashes == {H1, H2}

(***************************************************************************)
(* Python dicts keep insertion order: a dict is a sequence of              *)
(* <<key, value>> pairs with pairwise distinct keys.                       *)
(***************************************************************************)
DictHas(d, k) == \E i \in 1..Len(d) : d[i][1] = k

DictGet(d, k) == d[CHOOSE i \in 1..Len(d) : d[i][1] = k][2]

\* d[k] = v: replaces the value of an existing key in place, else appends
DictSet(d, k, v) ==
    IF DictHas(d, k)
    THEN LET i == CHOOSE j \in 1..Len(d) : d[j][1] = k
         IN  SubSeq(d, 1, i - 1) \o <<<<k, v>>>> \o SubSeq(d, i + 1, Len(d))
    ELSE Append(d, <<k, v>>)

\* defaultdict(dict)[k]: the value of k, an empty dict for a new key
DefaultGet(d, k) == IF DictHas(d, k) THEN DictGet(d, k) ELSE <<>>

(***************************************************************************)
(* The catalog: the answers of /api/v1/cruise/all and /api/v1/file/all.    *)
(***************************************************************************)
\* the file records the catalogs of the model are made of
AllFiles == <<
    [id |-> 1, role |-> "dataset", permissions |-> <<>>,
     data_type |-> "bottle", data_format |-> "exchange",
     file_path |-> "/data/1/a_hy1.csv", file_hash |-> H1],
    [id |-> 2, role |-> "dataset", permissions |-> <<>>,
     data_type |-> "bottle", data_format |-> "exchange",
     file_path |-> "/data/2/b_hy1.csv", file_hash |-> H2],
    [id |-> 3, role |-> "dataset", permissions |-> <<>>,
     data_type |-> "ctd", data_format |-> "exchange",
     file_path |-> "/data/3/c_ct1.zip", file_hash |-> H2],
    [id |-> 4, role |-> "unprocessed", permissions |-> <<>>,
     data_type |-> "bottle", data_format |-> "exchange",
     file_path |-> "/data/4/d_hy1.csv", file_hash |-> H1],
    [id |-> 5, role |-> "dataset", permissions |-> <<>>,
     data_type |-> "documentation", data_format |-> "ods",
     file_path |-> "/data/5/e_do.ods", file_hash |-> H2] >>

FileIds == {AllFiles[i].id : i \in 1..Len(AllFiles)}

\* the expocodes of the model: "X" and "X/2"
Expocodes == {<<"X">>, <<"X", "/", "2">>}

\* the sequences over S of length lo..hi
SeqsOf(S, lo, hi) == UNION {[1..n -> S] : n \in lo..hi}

\* the ways to deal n references, in order, to c cruises
Owners(n, c) ==
    {o \in [1..n -> 1..c] : \A i \in 1..n : \A j \in i..n : o[i] <= o[j]}

RECURSIVE OwnedBy(_, _, _)
OwnedBy(refs, owner, k) ==
    IF refs = <<>> THEN <<>>
    ELSE IF Head(owner) = k
         THEN <<Head(refs)>> \o OwnedBy(Tail(refs), Tail(owner), k)
         ELSE OwnedBy(Tail(refs), Tail(owner), k)

\* the cruise list of the cruises with the expocodes expo, the references
\* refs dealt to them as owner says
CruiseList(expo, refs, owner) ==
    [k \in 1..Len(expo) |->
        [expocode |-> expo[k], files |-> OwnedBy(refs, owner, k)]]

\* the catalogs of the fetch-phase specification: one cruise "X" listing
\* 1..MaxFetch eligible mapped files
FetchCatalogs ==
    { <<[expocode |-> <<"X">>, files |-> refs]>> :
      refs \in SeqsOf({1, 3}, 1, MaxFetch) }

(***************************************************************************)
(* State.                                                                  *)
(***************************************************************************)
VARIABLES
    crusies,           \* the cruise list of the catalog (line 152)
    files,             \* the file list of the catalog (line 154)
    file_by_id,        \* dict id -> file record (line 156)
    get_files,         \* dict key -> dict fname -> uri (line 40)
    get_files_hashes,  \* dict key -> dict fname -> hash (line 41)
    pc,                \* the position of main()
    ci,                \* the position of the loop over the cruises (line 169)
    fi,                \* the position of the loop over cruise["files"] (line 176)
    run,               \* the number of this run of the program
    tasks,             \* the cache-fill tasks of the gather (lines 248-259)
    cache,             \* the download cache directory: file name -> file
    archives,          \* the category archives of the snapshot directory
    ai,                \* the position of the archive loop (line 261)
    prev,              \* history: how the previous run ended
    snapshot           \* the snapshot directory of this run (line 54)

vars == <<crusies, files, file_by_id, get_files, get_files_hashes, pc, ci, fi,
          run, tasks, cache, archives, ai, prev, snapshot>>

catalog == <<crusies, files>>
tables == <<file_by_id, get_files, get_files_hashes, ci, fi>>

(***************************************************************************)
(* Eligibility filter and naming resolver.                                 *)
(***************************************************************************)
\* the filter without the test of the data type
InDatasetAnyType(file) ==
    /\ file.role = "dataset"
    /\ file.permissions = <<>>

\* in_dataset, lines 44-50
in_dataset(file) ==
    /\ file.role = "dataset"
    /\ file.permissions = <<>>
    /\ file.data_type # "trace_metals"

\* {file["id"]: file for file in filter(in_dataset, files)}, line 156
RECURSIVE FileById(_)
FileById(fs) ==
    IF fs = <<>> THEN <<>>
    ELSE LET rest == FileById(SubSeq(fs, 1, Len(fs) - 1))
             file == fs[Len(fs)]
         IN  IF in_dataset(file) THEN DictSet(rest, file.id, file) ELSE rest

\* str(n) of a natural number
Digit(d) == <<"0", "1", "2", "3", "4", "5", "6", "7", "8", "9">>[d + 1]

RECURSIVE IntStr(_)
IntStr(n) == IF n < 10 THEN Digit(n) ELSE IntStr(n \div 10) \o Digit(n % 10)

\* expocode.replace('/', '_'), lines 186 and 190
RECURSIVE ReplaceSlash(_)
ReplaceSlash(chars) ==
    IF chars = <<>> THEN ""
    ELSE (IF Head(chars) = "/" THEN "_" ELSE Head(chars))
         \o ReplaceSlash(Tail(chars))

\* no loop: the first candidate is taken as it is
ScanNameOnce(names, base, ext, fname, count) == fname

\* the loop of lines 188-191: fname is the candidate, count the next counter
RECURSIVE ScanName(_, _, _, _, _)
ScanName(names, base, ext, fname, count) ==
    IF DictHas(names, fname)
    THEN ScanName(names, base, ext, base \o "_" \o IntStr(count) \o ext, count + 1)
    ELSE fname

\* lines 186-191: the name of a file of expocode under key, given the names
\* the key holds already
ResolveName(names, expocode, key) ==
    LET base == ReplaceSlash(expocode)
    IN  ScanName(names, base, file_exts[key], base \o file_exts[key], 2)

\* file_key of a file record, line 182
FileKey(file) == <<file.data_type, file.data_format>>

\* the url of a file record, line 195
UriOf(file) == "https://cchdo.ucsd.edu" \o file.file_path

\* lines 177-197: one file id of a cruise; tb = [files, hashes] are the
\* two tables
AddFile(tb, fbi, expocode, file_id) ==
    IF ~DictHas(fbi, file_id) THEN tb
    ELSE LET file == DictGet(fbi, file_id)
             key == FileKey(file)
         IN  IF key \notin DOMAIN file_exts THEN tb
             ELSE LET fname == ResolveName(DefaultGet(tb.files, key), expocode, key)
                  IN  [files |-> DictSet(tb.files, key,
                                    DictSet(DefaultGet(tb.files, key), fname, UriOf(file))),
                       hashes |-> DictSet(tb.hashes, key,
                                    DictSet(DefaultGet(tb.hashes, key), fname,
                                            file.file_hash))]

(***************************************************************************)
(* The cache directory.                                                    *)
(***************************************************************************)
NoFile == [exists |-> FALSE, data |-> <<>>, mtime |-> 0]

\* what a cache file may hold when the first run starts: nothing, the
\* content its name promises, or the empty remains of an interrupted write
InitialFiles(h) ==
    {NoFile} \cup
    {[exists |-> TRUE, data |-> d, mtime |-> 0] : d \in {b \in Bodies : Digest(b) = h} \cup {<<>>}}

\* one cache file for every hash
CachePathShared(fhash) == H1

\* download_cache / fhash, line 251
CachePath(fhash) == fhash

(***************************************************************************)
(* The snapshot directory, lines 52-54 and 137-146.  The content of an     *)
(* artifact (a zip archive, the csv index) is the sequence of its members, *)
(* each with a name, its bytes and a time stamp; the rows of the manifest  *)
(* are tuples of fields.                                                   *)
(***************************************************************************)
\* the directory of a date on which the program has not run yet
NoDir == [exists |-> FALSE, manifest |-> <<>>, files |-> <<>>]

\* snapshot.mkdir(exist_ok=True), line 162
MkDir(dir) == [dir EXCEPT !.exists = TRUE]

\* open(path, "w") ... close: the file is created, or replaced, with content
WriteFile(dir, fname, content) ==
    [dir EXCEPT !.files = DictSet(@, fname, content)]

\* the header row of line 164
ManifestHeader == <<"file", "size", "sha256">>

\* write_manifest_line, lines 137-139: open("+a") creates the manifest when
\* it is missing, and the line goes to its end
write_manifest_line(dir, line) == [dir EXCEPT !.manifest = Append(@, line)]

\* path.stat().st_size, line 144: a frame per member and its bytes
RECURSIVE SizeOf(_)
SizeOf(content) ==
    IF content = <<>> THEN 1
    ELSE 1 + Len(Head(content).data) + SizeOf(Tail(content))

\* file_digest of an artifact, line 145: injective on contents
HashOf(content) ==
    [i \in 1..Len(content) |->
        <<content[i].name, Digest(content[i].data), content[i].mtime>>]

\* the row of an empty file, whatever the file holds
WriteManifestEmpty(dir, fname) == write_manifest_line(dir, <<fname, 1, <<>>>>)

\* write_manitfest_file, lines 142-146: the row of the file as it is now
write_manitfest_file(dir, fname) ==
    LET content == DictGet(dir.files, fname)
    IN  write_manifest_line(dir, <<fname, SizeOf(content), HashOf(content)>>)

\* the characters of an expocode as one string
RECURSIVE Join(_)
Join(chars) == IF chars = <<>> THEN "" ELSE Head(chars) \o Join(Tail(chars))

\* the code points of the characters of the expocodes
CharCode(c) ==
    CASE c = "/" -> 47
      [] c = "2" -> 50
      [] c = "X" -> 88
      [] c = "_" -> 95

\* a < b of two Python strings
RECURSIVE StrLess(_, _)
StrLess(a, b) ==
    IF b = <<>> THEN FALSE
    ELSE IF a = <<>> THEN TRUE
    ELSE IF Head(a) = Head(b) THEN StrLess(Tail(a), Tail(b))
    ELSE CharCode(Head(a)) < CharCode(Head(b))

\* x put into a list sorted by expocode, after the elements that are not
\* greater
RECURSIVE Insert(_, _)
Insert(sorted, x) ==
    IF sorted = <<>> THEN <<x>>
    ELSE IF StrLess(x.expocode, Head(sorted).expocode) THEN <<x>> \o sorted
    ELSE <<Head(sorted)>> \o Insert(Tail(sorted), x)

\* sorted(cruise_infos, key=lambda x: x["expocode"]), line 232: stable
RECURSIVE SortedByExpocode(_)
SortedByExpocode(cs) ==
    IF cs = <<>> THEN <<>>
    ELSE Insert(SortedByExpocode(SubSeq(cs, 1, Len(cs) - 1)), cs[Len(cs)])

\* lines 166-173: cruise_history.zip holds one text per cruise, in catalog
\* order, stamped with the time of the run
HistoryOf(cs, at) ==
    [k \in 1..Len(cs) |->
        [name |-> Join(cs[k].expocode) \o "_info.txt", data |-> <<>>, mtime |-> at]]

\* lines 217-232: cruise_index.csv holds the header row and one row per
\* cruise, sorted by expocode
IndexOf(cs) ==
    <<[name |-> "expocode", data |-> <<>>, mtime |-> 0]>> \o
    [k \in 1..Len(cs) |->
        [name |-> Join(SortedByExpocode(cs)[k].expocode), data |-> <<>>, mtime |-> 0]]

(***************************************************************************)
(* Initial states.                                                         *)
(***************************************************************************)
\* the cache directories a first run may find
InitialCaches == {c \in [Hashes -> UNION {InitialFiles(h) : h \in Hashes}] :
                    \A h \in Hashes : c[h] \in InitialFiles(h)}

EmptyCache == [h \in Hashes |-> NoFile]

NoRun == [pc |-> "none", tasks |-> <<>>, archives |-> <<>>]

InitWith(catalogs, caches) ==
    /\ catalogs
    /\ file_by_id = <<>>
    /\ get_files = <<>>
    /\ get_files_hashes = <<>>
    /\ pc = "start"
    /\ ci = 1
    /\ fi = 1
    /\ run = 1
    /\ tasks = <<>>
    /\ cache \in caches
    /\ archives = <<>>
    /\ ai = 1
    /\ prev = NoRun
    /\ snapshot = NoDir

Init == InitWith(crusies \in FetchCatalogs /\ files = AllFiles, InitialCaches)

\* the naming specification: 1..MaxCruises cruises of any expocode, at most
\* MaxRefs references to any file
InitNaming ==
    InitWith(\E refs \in SeqsOf(FileIds, 0, MaxRefs) :
             \E expo \in SeqsOf(Expocodes, 1, MaxCruises) :
             \E owner \in Owners(Len(refs), Len(expo)) :
                 crusies = CruiseList(expo, refs, owner) /\ files = AllFiles,
             {EmptyCache})

(***************************************************************************)
(* main(), lines 156-233: the eligibility filter, the naming loop and the  *)
(* cruise index.                                                           *)
(***************************************************************************)
\* file["role"], file["permissions"], file["data_type"] of lines 47-49: the
\* "and" chain stops at the first false operand, and the subscript of a
\* missing key raises KeyError
KeyErrorIn(file) ==
    \/ "role" \notin DOMAIN file
    \/ /\ file.role = "dataset"
       /\ \/ "permissions" \notin DOMAIN file
          \/ /\ file.permissions = <<>>
             /\ "data_type" \notin DOMAIN file

\* lines 156-168: the filter; a KeyError of in_dataset leaves main().  Then
\* the snapshot directory is made, the header row is appended to the
\* manifest and cruise_history.zip is opened for writing
Prepare ==
    /\ pc = "start"
    /\ IF \E k \in 1..Len(files) : KeyErrorIn(files[k])
       THEN /\ pc' = "faulted"
            /\ UNCHANGED <<file_by_id, snapshot>>
       ELSE /\ file_by_id' = FileById(files)
            /\ snapshot' = WriteFile(write_manifest_line(MkDir(snapshot), ManifestHeader),
                                     "cruise_history.zip", <<>>)
            /\ pc' = "history"
    /\ UNCHANGED <<catalog, get_files, get_files_hashes, ci, fi, run, tasks,
                   cache, archives, ai, prev>>

\* lines 169-175: the loop over the cruises takes the next cruise and
\* writes its text to cruise_history.zip
OpenCruise ==
    /\ pc = "history"
    /\ ci \in 1..Len(crusies)
    /\ IF crusies[ci].files = <<>>
       THEN ci' = ci + 1 /\ pc' = pc
       ELSE ci' = ci /\ pc' = "files"
    /\ fi' = 1
    /\ UNCHANGED <<catalog, file_by_id, get_files, get_files_hashes, run, tasks,
                   cache, archives, ai, prev, snapshot>>

\* lines 176-197: one file id of the cruise
NameFile ==
    /\ pc = "files"
    /\ LET cruise == crusies[ci]
           tb == AddFile([files |-> get_files, hashes |-> get_files_hashes],
                         file_by_id, cruise.expocode, cruise.files[fi])
       IN  /\ get_files' = tb.files
           /\ get_files_hashes' = tb.hashes
           /\ IF fi = Len(cruise.files)
              THEN ci' = ci + 1 /\ fi' = 1 /\ pc' = "history"
              ELSE ci' = ci /\ fi' = fi + 1 /\ pc' = pc
    /\ UNCHANGED <<catalog, file_by_id, run, tasks, cache, archives, ai, prev, snapshot>>

\* lines 199-233: the loop over the cruises has ended; cruise_history.zip
\* is closed and recorded, cruise_index.csv is written and recorded
CloseHistory ==
    /\ pc = "history"
    /\ ci > Len(crusies)
    /\ pc' = "gather"
    /\ LET d1 == WriteFile(snapshot, "cruise_history.zip", HistoryOf(crusies, run))
           d2 == write_manitfest_file(d1, "cruise_history.zip")
           d3 == WriteFile(d2, "cruise_index.csv", IndexOf(crusies))
       IN  snapshot' = write_manitfest_file(d3, "cruise_index.csv")
    /\ UNCHANGED <<catalog, tables, run, tasks, cache, archives, ai, prev>>

(***************************************************************************)
(* The fetch phase, lines 235-259.  asyncio runs the tasks of the gather   *)
(* on one thread: a task runs from one await to the next without           *)
(* interruption, and the tasks interleave at their awaits.  The loop's     *)
(* ready queue is first-in first-out, so every task runs up to its first   *)
(* await (the existence check of lines 115-122 and the call of             *)
(* session.get) in fetch-list order before any response is delivered.      *)
(***************************************************************************)
\* the values of one dict of the table, in insertion order
DictValues(d) == [i \in 1..Len(d) |-> d[i][2]]

\* lines 240-243: (hash, uri) per table entry, keys and names in insertion
\* order
RECURSIVE FetchList(_, _)
FetchList(gf, gh) ==
    IF gf = <<>> THEN <<>>
    ELSE LET dtkey == gf[1][1]
             names == gf[1][2]
         IN  [i \in 1..Len(names) |->
                 [fhash |-> DictGet(DictGet(gh, dtkey), names[i][1]),
                  uri |-> names[i][2]]]
             \o FetchList(Tail(gf), gh)

\* lines 235-259: the fetch list and one coroutine per item, handed to
\* asyncio.gather
Launch ==
    /\ pc = "gather"
    /\ LET fetch_list == FetchList(get_files, get_files_hashes)
       IN  tasks' = [i \in 1..Len(fetch_list) |->
                        [fhash |-> fetch_list[i].fhash,
                         uri |-> fetch_list[i].uri,
                         pc |-> "new",
                         reqs |-> 0,
                         healed |-> FALSE]]
    /\ pc' = "fetch"
    /\ UNCHANGED <<catalog, tables, run, cache, archives, ai, prev, snapshot>>

\* no existence check: every call downloads
CacheNeverHit(f, fhash) == FALSE

\* a file of the name is a hit, whatever it holds
CacheHitByName(f, fhash) == f.exists

\* lines 115-118: the file exists and its digest is the expected hash
CacheHit(f, fhash) == f.exists /\ Digest(f.data) = fhash

\* lines 115-124, the first step of task i: a cache hit returns; a file of
\* another digest is unlinked; then session.get is called and the task
\* waits for the response
Start(i) ==
    /\ pc = "fetch"
    /\ i \in 1..Len(tasks)
    /\ tasks[i].pc = "new"
    /\ \A j \in 1..(i - 1) : tasks[j].pc # "new"
    /\ LET path == CachePath(tasks[i].fhash)
           f == cache[path]
       IN  IF CacheHit(f, tasks[i].fhash)
           THEN /\ tasks' = [tasks EXCEPT ![i].pc = "ok"]
                /\ cache' = cache
           ELSE /\ tasks' = [tasks EXCEPT ![i].pc = "get",
                                          ![i].reqs = @ + 1,
                                          ![i].healed = f.exists]
                /\ cache' = [cache EXCEPT ![path] = NoFile]
    /\ UNCHANGED <<catalog, tables, pc, run, archives, ai, prev, snapshot>>

\* every task of the gather has run up to its first await
AllStarted == \A j \in 1..Len(tasks) : tasks[j].pc # "new"

\* lines 124-127: the response of task i has arrived; path.open("wb")
\* creates the file or truncates it, and the task waits for the body with
\* the file open
Respond(i) ==
    /\ pc = "fetch"
    /\ AllStarted
    /\ i \in 1..Len(tasks)
    /\ tasks[i].pc = "get"
    /\ tasks' = [tasks EXCEPT ![i].pc = "read"]
    /\ cache' = [cache EXCEPT ![CachePath(tasks[i].fhash)] =
                     [exists |-> TRUE, data |-> <<>>, mtime |-> run]]
    /\ UNCHANGED <<catalog, tables, pc, run, archives, ai, prev, snapshot>>

\* f.write(body) on a file opened "wb" whose offset is 0: the body replaces
\* the first bytes of what the file holds now
Overwrite(old, body) == body \o SubSeq(old, Len(body) + 1, Len(old))

\* line 127: the body of task i has arrived; it is written and the file is
\* closed; leaving the "async with" of line 124 is one more await
Body(i) ==
    /\ pc = "fetch"
    /\ i \in 1..Len(tasks)
    /\ tasks[i].pc = "read"
    /\ \E body \in Bodies :
          cache' = [cache EXCEPT ![CachePath(tasks[i].fhash)] =
                       [exists |-> TRUE, data |-> Overwrite(@.data, body),
                        mtime |-> run]]
    /\ tasks' = [tasks EXCEPT ![i].pc = "verify"]
    /\ UNCHANGED <<catalog, tables, pc, run, archives, ai, prev, snapshot>>

\* no digest check of the written file
VerdictUnchecked(f, fhash) == "ok"

\* lines 129-132: the outcome of the digest check of the written file
Verdict(f, fhash) == IF Digest(f.data) = fhash THEN "ok" ELSE "bad"

\* lines 129-134: task i re-reads the file and returns, or raises
\* Exception("bad download")
Verify(i) ==
    /\ pc = "fetch"
    /\ i \in 1..Len(tasks)
    /\ tasks[i].pc = "verify"
    /\ tasks' = [tasks EXCEPT
                    ![i].pc = Verdict(cache[CachePath(tasks[i].fhash)],
                                      tasks[i].fhash)]
    /\ UNCHANGED <<catalog, tables, pc, run, cache, archives, ai, prev, snapshot>>

\* a gather that returns with the first task that returns
GatherFirst == \E i \in 1..Len(tasks) : tasks[i].pc = "ok"

\* line 259: what lets "await asyncio.gather(*aio_tasks)" return
GatherDone == \A i \in 1..Len(tasks) : tasks[i].pc = "ok"

\* line 259: the gather returns when every task has returned
GatherReturn ==
    /\ pc = "fetch"
    /\ GatherDone
    /\ pc' = IF get_files = <<>> THEN "done" ELSE "assemble"
    /\ UNCHANGED <<catalog, tables, run, tasks, cache, archives, ai, prev, snapshot>>

\* line 259: gather has no return_exceptions, so the first exception of a
\* task leaves the await; it leaves main() and asyncio.run (line 277), which
\* cancels the tasks still pending at their awaits; their files stay as
\* they are
GatherRaise ==
    /\ pc = "fetch"
    /\ \E i \in 1..Len(tasks) : tasks[i].pc = "bad"
    /\ pc' = "aborted"
    /\ tasks' = [i \in 1..Len(tasks) |->
                    IF tasks[i].pc \in {"get", "read", "verify"}
                    THEN [tasks[i] EXCEPT !.pc = "cancelled"]
                    ELSE tasks[i]]
    /\ UNCHANGED <<catalog, tables, run, cache, archives, ai, prev, snapshot>>

(***************************************************************************)
(* Archive assembly, lines 261-273.                                        *)
(***************************************************************************)
\* an archive named by the format alone
ArchiveNameByFormat(key) == key[2] \o ".zip"

\* line 262
ArchiveName(key) == key[1] \o "_" \o key[2] \o ".zip"

\* zf.write(ospath, name), line 271: the entry holds the name, the bytes of
\* the cache file and, from its stat, its modification time
EntryOf(name, f) == [name |-> name, data |-> f.data, mtime |-> f.mtime]

\* lines 268-271 for the names of one key: the entries written until a
\* cache file is missing
RECURSIVE EntriesOf(_, _, _)
EntriesOf(names, hashes, dir) ==
    IF names = <<>> THEN <<>>
    ELSE LET f == dir[CachePath(DictGet(hashes, names[1][1]))]
         IN  IF f.exists
             THEN <<EntryOf(names[1][1], f)>> \o EntriesOf(Tail(names), hashes, dir)
             ELSE <<>>

\* lines 261-273, one iteration: the archive of the key at position ai,
\* and its row in the manifest; a missing cache file raises out of main()
\* and leaves the archive, closed, with the entries written so far
Assemble ==
    /\ pc = "assemble"
    /\ ai \in 1..Len(get_files)
    /\ LET key == get_files[ai][1]
           names == get_files[ai][2]
           entries == EntriesOf(names, DictGet(get_files_hashes, key), cache)
           written == WriteFile(snapshot, ArchiveName(key), entries)
       IN  /\ archives' = DictSet(archives, ArchiveName(key), entries)
           /\ pc' = IF Len(entries) < Len(names) THEN "crashed"
                     ELSE IF ai = Len(get_files) THEN "done" ELSE "assemble"
           /\ snapshot' = IF Len(entries) < Len(names) THEN written
                           ELSE write_manitfest_file(written, ArchiveName(key))
    /\ ai' = ai + 1
    /\ UNCHANGED <<catalog, tables, run, tasks, cache, prev>>

(***************************************************************************)
(* The program is run again: a new process, the same catalog, the cache    *)
(* directory as the last run left it.                                      *)
(***************************************************************************)
\* a new process after the end of the last one
Restart ==
    /\ pc \in {"done", "aborted", "crashed"}
    /\ run < MaxRuns
    /\ run' = run + 1
    /\ prev' = [pc |-> pc, tasks |-> tasks, archives |-> archives]
    /\ pc' = "start"
    /\ file_by_id' = <<>>
    /\ get_files' = <<>>
    /\ get_files_hashes' = <<>>
    /\ ci' = 1
    /\ fi' = 1
    /\ tasks' = <<>>
    /\ archives' = <<>>
    /\ ai' = 1
    /\ UNCHANGED <<catalog, cache>>

\* the next run is on a later date: line 54 names a directory that does not
\* exist yet
NewRun ==
    /\ Restart
    /\ snapshot' = NoDir

Next ==
    \/ Prepare
    \/ OpenCruise
    \/ NameFile
    \/ CloseHistory
    \/ Launch
    \/ \E i \in 1..Len(tasks) : Start(i)
    \/ \E i \in 1..Len(tasks) : Respond(i)
    \/ \E i \in 1..Len(tasks) : Body(i)
    \/ \E i \in 1..Len(tasks) : Verify(i)
    \/ GatherReturn
    \/ GatherRaise
    \/ Assemble
    \/ NewRun

Spec == Init /\ [][Next]_vars

NextNaming == Prepare \/ OpenCruise \/ NameFile \/ CloseHistory

SpecNaming == InitNaming /\ [][NextNaming]_vars

(***************************************************************************)
(* The launch of a long fetch list: one cruise listing LoadRefs files, and *)
(* the steps up to the point where every task waits for its response.      *)
(***************************************************************************)
LoadCatalog ==
    <<[expocode |-> <<"X">>,
       files |-> [i \in 1..LoadRefs |-> IF i % 2 = 1 THEN 1 ELSE 3]]>>

InitLaunch == InitWith(crusies = LoadCatalog /\ files = AllFiles, InitialCaches)

NextLaunch ==
    \/ Prepare
    \/ OpenCruise
    \/ NameFile
    \/ CloseHistory
    \/ Launch
    \/ \E i \in 1..Len(tasks) : Start(i)

SpecLaunch == InitLaunch /\ [][NextLaunch]_vars

\* the requests that hold a connection of the session's connector: a task
\* between its call of session.get and the end of its body, as far as the
\* connector's limit lets them through
InFlight ==
    LET asking == Cardinality({i \in 1..Len(tasks) : tasks[i].pc \in {"get", "read"}})
    IN  IF asking < SessionLimit THEN asking ELSE SessionLimit

(***************************************************************************)
(* The cache directory is a cache: between two runs its files may be       *)
(* removed.                                                                *)
(***************************************************************************)
CacheEvict(h) ==
    /\ pc \in {"done", "aborted", "crashed"}
    /\ run < MaxRuns
    /\ cache[h].exists
    /\ cache' = [cache EXCEPT ![h] = NoFile]
    /\ UNCHANGED <<catalog, tables, pc, run, tasks, archives, ai, prev, snapshot>>

NextEvict ==
    \/ Next
    \/ \E h \in Hashes : CacheEvict(h)

SpecEvict == Init /\ [][NextEvict]_vars

(***************************************************************************)
(* The eligibility filter on any file records: every role, permission list *)
(* and data type, and records in which some of these keys are missing.     *)
(***************************************************************************)
FilterKeys == {"role", "permissions", "data_type"}

\* the record without the keys
WithoutKeys(file, keys) == [f \in DOMAIN file \ keys |-> file[f]]

\* the file records with this id
FilterRecords(id) ==
    { WithoutKeys([id |-> id, role |-> r, permissions |-> p, data_type |-> t,
                   data_format |-> "exchange",
                   file_path |-> "/data/" \o IntStr(id), file_hash |-> H1],
                  missing) :
      r \in {"dataset", "unprocessed"},
      p \in {<<>>, <<"staff">>},
      t \in {"bottle", "trace_metals"},
      missing \in SUBSET FilterKeys }

\* 1..MaxFiles file records, all of them listed by the one cruise "X"
InitFilter ==
    InitWith(\E n \in 1..MaxFiles :
                /\ files \in {fs \in [1..n -> UNION {FilterRecords(k) : k \in 1..n}] :
                                \A k \in 1..n : fs[k].id = k}
                /\ crusies = <<[expocode |-> <<"X">>, files |-> [k \in 1..n |-> k]]>>,
             {EmptyCache})

SpecFilter == InitFilter /\ [][NextNaming]_vars

(***************************************************************************)
(* The program is run again on the same UTC date: line 54 names the        *)
(* directory of the last run.                                              *)
(***************************************************************************)
Rerun ==
    /\ Restart
    /\ UNCHANGED snapshot

NextRerun ==
    \/ Next
    \/ Rerun

\* the first run finds an empty cache directory
InitRerun ==
    InitWith(crusies \in FetchCatalogs /\ files = AllFiles, {EmptyCache})

SpecRerun == InitRerun /\ [][NextRerun]_vars

(***************************************************************************)
(* The cache directory is shared with whatever else cleans the user's      *)
(* cache: a file may be gone when the archive loop comes to read it.       *)
(***************************************************************************)
CacheVanish(h) ==
    /\ pc = "assemble"
    /\ cache[h].exists
    /\ cache' = [cache EXCEPT ![h] = NoFile]
    /\ UNCHANGED <<catalog, tables, pc, run, tasks, archives, ai, prev, snapshot>>

NextVanish ==
    \/ Next
    \/ \E h \in Hashes : CacheVanish(h)

SpecVanish == Init /\ [][NextVanish]_vars

(***************************************************************************)
(* Properties.                                                             *)
(***************************************************************************)
TaskIds == 1..Len(tasks)

\* task i is between its existence check and the end of its verification
Filling(i) == tasks[i].pc \in {"get", "read", "verify"}

\* this step is a step of task i of the running fetch phase
StepOf(i) ==
    /\ pc = "fetch" /\ pc' = "fetch"
    /\ tasks'[i] # tasks[i]

FileValid(f, h) == f.exists /\ Digest(f.data) = h

\* C1: concurrent cache-fill calls for the same expected hash are
\* serialized: at most one of them is between its existence check and the
\* end of its verification, and the hash is transferred at most once in a
\* fetch phase.
SameHashSerialized ==
    \A i \in TaskIds : \A j \in TaskIds :
        (i # j /\ tasks[i].fhash = tasks[j].fhash) =>
            /\ ~(Filling(i) /\ Filling(j))
            /\ tasks[i].reqs + tasks[j].reqs <= 1

\* C2: a cache-fill call that fails on the digest of the file it wrote has
\* deleted the file at cache_dir/expected_hash when it fails.
DeletedOnFailure ==
    [][\A i \in TaskIds :
          (tasks[i].pc = "verify" /\ tasks'[i].pc = "bad") =>
              ~cache'[CachePath(tasks[i].fhash)].exists]_vars

\* C3: the run does not leave the fetch phase on the first error: when it
\* has left it, every item has reached an outcome of its own, a verified
\* success or its own failure, and none was cancelled.
FailSoftBatch ==
    pc \in {"aborted", "assemble", "done"} =>
        \A i \in TaskIds : tasks[i].pc \in {"ok", "bad"}

\* C4: while an archive is being written, or once one is written, every
\* cache-fill task of the run has completed: none is in flight.
BarrierBeforeAssembly ==
    (pc = "assemble" \/ archives # <<>>) =>
        \A i \in TaskIds : tasks[i].pc \in {"ok", "bad"}

\* an archive has been written, another is to be written, and the run
\* downloaded a file
BarrierWitness ==
    /\ pc = "assemble"
    /\ archives # <<>>
    /\ \E i \in TaskIds : tasks[i].reqs > 0

\* C5: at every moment of the fetch phase at most 20 downloads have an
\* HTTP request in flight.
BoundedConcurrency == InFlight <= StatedLimit

\* the tasks of ts other than i ask for other hashes
Sole(ts, i) == \A j \in 1..Len(ts) : j # i => ts[j].fhash # ts[i].fhash

\* the calls of the previous run and of this run that follow one another:
\* the same uri and hash, no other call for the hash in either run, and
\* the second call has made its existence check
InSequence(i, j) ==
    /\ prev.tasks[i].fhash = tasks[j].fhash
    /\ prev.tasks[i].uri = tasks[j].uri
    /\ Sole(prev.tasks, i)
    /\ Sole(tasks, j)
    /\ tasks[j].pc # "new"

\* C6: of two cache-fill calls for one url and hash made one after the
\* other, whatever the outcome of the first (it returned or it raised),
\* the two make at most one request in all and the second is a cache hit.
CacheIdempotence ==
    \A i \in 1..Len(prev.tasks) : \A j \in TaskIds :
        (InSequence(i, j) /\ prev.tasks[i].pc \in {"ok", "bad"}) =>
            /\ prev.tasks[i].reqs + tasks[j].reqs <= 1
            /\ tasks[j].reqs = 0
            /\ tasks[j].pc = "ok"

\* C6, amended: when the first call has returned (success), the two make
\* at most one request in all and the second is a cache hit that makes
\* none.
CacheIdempotenceAfterSuccess ==
    \A i \in 1..Len(prev.tasks) : \A j \in TaskIds :
        (InSequence(i, j) /\ prev.tasks[i].pc = "ok") =>
            /\ prev.tasks[i].reqs + tasks[j].reqs <= 1
            /\ tasks[j].reqs = 0
            /\ tasks[j].pc = "ok"

\* a call that downloaded its file and returned is followed, in the next
\* run, by a call for the same url and hash that has returned
IdempotenceWitness ==
    \E i \in 1..Len(prev.tasks) : \E j \in TaskIds :
        /\ InSequence(i, j)
        /\ prev.tasks[i].pc = "ok"
        /\ prev.tasks[i].reqs = 1
        /\ tasks[j].pc = "ok"

\* C7: a cache-fill call that finds a file at cache_dir/h whose digest is
\* not h deletes it and requests the url exactly once; when it returns
\* the file at cache_dir/h has digest h, and when it raises the digest of
\* the file differs from h.
CacheSelfHealing ==
    [][\A i \in TaskIds :
          /\ ( /\ StepOf(i)
               /\ tasks[i].pc = "new"
               /\ cache[CachePath(tasks[i].fhash)].exists
               /\ Digest(cache[CachePath(tasks[i].fhash)].data) # tasks[i].fhash )
             => /\ ~cache'[CachePath(tasks[i].fhash)].exists
                /\ tasks'[i].healed
                /\ tasks'[i].pc = "get"
                /\ tasks'[i].reqs = 1
          /\ (StepOf(i) /\ tasks[i].healed)
             => /\ tasks'[i].healed
                /\ tasks'[i].reqs = 1
                /\ tasks'[i].pc = "ok"
                   => FileValid(cache'[CachePath(tasks[i].fhash)], tasks[i].fhash)
                /\ tasks'[i].pc = "bad"
                   => ~FileValid(cache'[CachePath(tasks[i].fhash)], tasks[i].fhash)
      ]_vars

\* a call that found a file of another digest has returned, and the file
\* has the expected digest
SelfHealingWitness ==
    \E i \in TaskIds :
        /\ tasks[i].healed
        /\ tasks[i].pc = "ok"
        /\ FileValid(cache[CachePath(tasks[i].fhash)], tasks[i].fhash)

\* C8: a step of a cache-fill call for hash h leaves every cache file named
\* h' # h as it is, under any interleaving of the calls.
OtherHashesUntouched ==
    [][\A i \in TaskIds :
          StepOf(i) =>
              \A h \in Hashes \ {tasks[i].fhash} : cache'[h] = cache[h]]_vars

\* two calls for different hashes are in flight, one with its file written
\* and the other with its file open
OtherHashesWitness ==
    \E i \in TaskIds : \E j \in TaskIds :
        /\ tasks[i].fhash # tasks[j].fhash
        /\ tasks[i].pc = "verify"
        /\ tasks[j].pc = "read"

\* the references of the catalog, in catalog order
RECURSIVE Refs(_)
Refs(cs) ==
    IF cs = <<>> THEN <<>>
    ELSE [i \in 1..Len(Head(cs).files) |->
             [expocode |-> Head(cs).expocode, id |-> Head(cs).files[i]]]
         \o Refs(Tail(cs))

\* the file records of the catalog with this id
Records(id) == {k \in 1..Len(files) : files[k].id = id}

RecordOf(id) == files[CHOOSE k \in Records(id) : TRUE]

\* the eligible references to files of a mapped key, in catalog order
RefsOf(key) ==
    SelectSeq(Refs(crusies),
              LAMBDA r : /\ Records(r.id) # {}
                         /\ in_dataset(RecordOf(r.id))
                         /\ FileKey(RecordOf(r.id)) = key)

\* the k-th name of the counter scheme: X<suffix>, X_2<suffix>, X_3<suffix>
Candidate(expocode, key, k) ==
    IF k = 1 THEN ReplaceSlash(expocode) \o file_exts[key]
    ELSE ReplaceSlash(expocode) \o "_" \o IntStr(k) \o file_exts[key]

\* the names of the first m entries of a key
NamesBefore(entries, m) == {entries[n][1] : n \in 1..(m - 1)}

\* how many of the first m references have the expocode of the m-th
Rank(refs, m) ==
    Cardinality({n \in 1..m : refs[n].expocode = refs[m].expocode})

\* every eligible mapped reference has its own entry, in catalog order,
\* with the url and the hash of its file, under pairwise distinct names
OwnEntries(key) ==
    LET refs == RefsOf(key)
        entries == DefaultGet(get_files, key)
        hashes == DefaultGet(get_files_hashes, key)
    IN  /\ Len(entries) = Len(refs)
        /\ Len(hashes) = Len(refs)
        /\ \A m \in 1..Len(refs) :
              /\ entries[m][2] = UriOf(RecordOf(refs[m].id))
              /\ hashes[m][1] = entries[m][1]
              /\ hashes[m][2] = RecordOf(refs[m].id).file_hash
              /\ entries[m][1] \notin NamesBefore(entries, m)

\* C9: the eligible mapped references of one expocode X and one key
\* resolve, in catalog order, to X<suffix>, X_2<suffix>, X_3<suffix>, ...;
\* the names of a key are pairwise distinct and every reference has its own
\* entry.
NamesCountUpward ==
    pc = "gather" =>
        \A key \in DOMAIN file_exts :
            /\ OwnEntries(key)
            /\ \A m \in 1..Len(RefsOf(key)) :
                  DefaultGet(get_files, key)[m][1] =
                      Candidate(RefsOf(key)[m].expocode, key, Rank(RefsOf(key), m))

\* C9, amended: each reference resolves to the first of X'<suffix>,
\* X'_2<suffix>, X'_3<suffix>, ... (X' the expocode with "/" replaced by
\* "_") that no earlier entry of the key bears; these are the names in
\* counter order when no earlier entry of another expocode bears one of
\* them; the names of a key are pairwise distinct and every reference has
\* its own entry.
NamesFirstFree ==
    pc = "gather" =>
        \A key \in DOMAIN file_exts :
            /\ OwnEntries(key)
            /\ \A m \in 1..Len(RefsOf(key)) :
                  LET refs == RefsOf(key)
                      entries == DefaultGet(get_files, key)
                      taken == NamesBefore(entries, m)
                      first == CHOOSE k \in 1..m :
                                  /\ Candidate(refs[m].expocode, key, k) \notin taken
                                  /\ \A j \in 1..(k - 1) :
                                        Candidate(refs[m].expocode, key, j) \in taken
                      others == {entries[n][1] : n \in
                                    {n \in 1..(m - 1) :
                                        refs[n].expocode # refs[m].expocode}}
                  IN  /\ entries[m][1] = Candidate(refs[m].expocode, key, first)
                      /\ ( \A k \in 1..Rank(refs, m) :
                              Candidate(refs[m].expocode, key, k) \notin others )
                         => first = Rank(refs, m)

\* the second file of cruise "X" finds X_2<suffix> taken by cruise "X/2"
NamingWitness ==
    /\ pc = "gather"
    /\ \E i \in 1..Len(get_files) :
          [n \in 1..Len(get_files[i][2]) |-> get_files[i][2][n][1]]
              = <<"X_2_hy1.csv", "X_hy1.csv", "X_3_hy1.csv">>

\* C10: two runs against the same catalog and file content write the same
\* category archives: the same entries in the same order with the same
\* bytes and metadata, whether the files were cache hits or downloads.
ArchiveDeterminism ==
    (pc = "done" /\ prev.pc = "done") => archives = prev.archives

\* the run has stopped: main() has returned or an exception has left it
Stopped == pc \in {"done", "aborted", "crashed"}

\* the top-level artifacts this run has put into the snapshot directory
Emitted ==
    (IF pc \in {"start", "faulted"} THEN {} ELSE {"cruise_history.zip"}) \cup
    (IF pc \in {"start", "faulted", "history", "files"} THEN {} ELSE {"cruise_index.csv"}) \cup
    {archives[k][1] : k \in 1..Len(archives)}

\* the rows of the manifest after its first line
Rows == Tail(snapshot.manifest)

\* C11: when the run has stopped, in whatever way, the manifest has as many
\* lines after the header as the run has emitted top-level artifacts, and
\* every emitted artifact has exactly one record.
ManifestComplete ==
    Stopped =>
        /\ Len(Rows) = Cardinality(Emitted)
        /\ \A n \in Emitted :
              Cardinality({k \in 1..Len(Rows) : Rows[k][1] = n}) = 1

\* the lines of the manifest that are header rows
Headers == {k \in 1..Len(snapshot.manifest) : snapshot.manifest[k] = ManifestHeader}

\* C12: after any sequence of runs the manifest of the snapshot directory
\* has exactly one header line, its first line, and a run never starts on
\* a snapshot directory that an earlier run has made.
HeaderOnce ==
    /\ snapshot.manifest # <<>> => Headers = {1}
    /\ pc = "start" => ~snapshot.exists

\* the record carries role, permissions and data_type
Complete(file) == FilterKeys \subseteq DOMAIN file

\* the eligibility rule
Eligible(file) ==
    ~ \/ file.permissions # <<>>
      \/ file.role # "dataset"
      \/ file.data_type = "trace_metals"

\* the urls of the naming table
TableUris ==
    UNION { {get_files[i][2][n][2] : n \in 1..Len(get_files[i][2])} :
            i \in 1..Len(get_files) }

\* C13: of the records that carry role, permissions and data_type, the
\* filter keeps exactly those with empty permissions, role "dataset" and
\* a data type other than trace_metals; every entry of the naming table
\* comes from a record it kept.
EligibilityRule ==
    /\ pc \notin {"start", "faulted"} =>
          \A k \in 1..Len(files) :
              Complete(files[k]) =>
                  (DictHas(file_by_id, files[k].id) <=> Eligible(files[k]))
    /\ \A u \in TableUris :
          \E k \in 1..Len(files) :
              /\ Complete(files[k])
              /\ Eligible(files[k])
              /\ u = UriOf(files[k])

\* the naming loop has ended on a catalog with a restricted record and a
\* public one: the table holds the public one only
EligibilityWitness ==
    /\ pc = "gather"
    /\ Len(files) = 2
    /\ Complete(files[1]) /\ files[1].permissions # <<>> /\ files[1].role = "dataset"
    /\ Complete(files[2]) /\ Eligible(files[2])
    /\ TableUris = {UriOf(files[2])}

\* C14: the filter is total: a record in which role, permissions or
\* data_type is missing is left out as ineligible, and no record makes the
\* run end with a fault.
EligibilityTotal ==
    /\ pc # "faulted"
    /\ pc # "start" =>
          \A k \in 1..Len(files) :
              ~Complete(files[k]) => ~DictHas(file_by_id, files[k].id)

\* every cache file the names of the k-th key need is there
CachePresent(k) ==
    \A n \in 1..Len(get_files[k][2]) :
        cache[CachePath(DictGet(DictGet(get_files_hashes, get_files[k][1]),
                                get_files[k][2][n][1]))].exists

\* C15: when the archive loop has ended, by a missing cache file or
\* normally, no archive of the snapshot directory holds fewer entries than
\* its key has names, and every key whose cache files are all there has
\* its archive.
ArchiveAllOrNothing ==
    pc \in {"crashed", "done"} =>
        \A k \in 1..Len(get_files) :
            LET fname == ArchiveName(get_files[k][1])
            IN  /\ DictHas(snapshot.files, fname) =>
                      Len(DictGet(snapshot.files, fname)) = Len(get_files[k][2])
                /\ CachePresent(k) => DictHas(snapshot.files, fname)

\* the archives this run has written, by name
ArchiveNames == {archives[k][1] : k \in 1..Len(archives)}

\* <category>_<format>.zip for the keys of the set
ZipNames(keys) == {key[1] \o "_" \o key[2] \o ".zip" : key \in keys}

\* the keys of the allow-list with an eligible file record in the catalog
EligibleKeys ==
    {key \in DOMAIN file_exts :
        \E k \in 1..Len(files) : in_dataset(files[k]) /\ FileKey(files[k]) = key}

\* the keys of the allow-list with an eligible file record that the file
\* list of some cruise refers to
ListedKeys == {key \in DOMAIN file_exts : RefsOf(key) # <<>>}

\* C16: a run that completes has written exactly one archive
\* <category>_<format>.zip for each key of the allow-list that has an
\* eligible file record in the catalog, listed by a cruise or not, and no
\* other archive.
ArchivePerEligibleKey ==
    pc = "done" =>
        /\ ArchiveNames = ZipNames(EligibleKeys)
        /\ Len(archives) = Cardinality(EligibleKeys)

\* C16, amended: a run that completes has written exactly one archive
\* <category>_<format>.zip for each key of the allow-list that has an
\* eligible file record listed in the file list of some cruise, and no
\* other archive; an eligible record that no cruise lists gives its key
\* no archive.
ArchivePerListedKey ==
    pc = "done" =>
        /\ ArchiveNames = ZipNames(ListedKeys)
        /\ Len(archives) = Cardinality(ListedKeys)
        /\ \A k \in 1..Len(archives) : DictHas(snapshot.files, archives[k][1])

\* a run has completed with an archive for the one key that is listed,
\* and none for a key whose eligible records no cruise lists
ListedKeysWitness ==
    /\ pc = "done"
    /\ Len(archives) = 1
    /\ EligibleKeys \ ListedKeys # {}

\* C17: in the fetch phase, once the file at cache_dir/h has digest h, no
\* step of a cache-fill call, a call for h that made its existence check
\* earlier included, requests h, truncates, deletes or overwrites the file.
ValidEntryKept ==
    [][(pc = "fetch" /\ pc' = "fetch") =>
          \A h \in Hashes :
              FileValid(cache[CachePath(h)], h) =>
                  /\ cache'[CachePath(h)] = cache[CachePath(h)]
                  /\ \A i \in TaskIds :
                        tasks[i].fhash = h => tasks'[i].reqs = tasks[i].reqs]_vars

\* the hash the tables record for the n-th name of the k-th key
HashAt(k, n) ==
    DictGet(DictGet(get_files_hashes, get_files[k][1]), get_files[k][2][n][1])

\* C18: when the gather has returned without an exception, every entry of
\* the naming table has a file at cache_dir/<its hash> with that digest,
\* also when entries share a hash and their tasks ran interleaved; every
\* entry of an archive holds content whose digest is the hash recorded for
\* its name.
VerifiedAfterGather ==
    pc \in {"assemble", "done", "crashed"} =>
        \A k \in 1..Len(get_files) :
            /\ \A n \in 1..Len(get_files[k][2]) :
                  FileValid(cache[CachePath(HashAt(k, n))], HashAt(k, n))
            /\ DictHas(archives, ArchiveName(get_files[k][1])) =>
                  LET entries == DictGet(archives, ArchiveName(get_files[k][1]))
                  IN  /\ Len(entries) = Len(get_files[k][2])
                      /\ \A n \in 1..Len(entries) :
                            /\ entries[n].name = get_files[k][2][n][1]
                            /\ Digest(entries[n].data) = HashAt(k, n)

\* the run has completed after two tasks for one hash both downloaded it
InterleavedWitness ==
    /\ pc = "done"
    /\ archives # <<>>
    /\ \E i \in TaskIds : \E j \in TaskIds :
          /\ i # j
          /\ tasks[i].fhash = tasks[j].fhash
          /\ tasks[i].reqs = 1
          /\ tasks[j].reqs = 1

\* a is an initial part of b
IsPrefix(a, b) == Len(a) <= Len(b) /\ SubSeq(b, 1, Len(a)) = a

\* the rows this run has appended: those after the header row it wrote
RunRows ==
    IF pc \in {"start", "faulted"} THEN <<>>
    ELSE LET last == CHOOSE k \in Headers : \A j \in Headers : j <= k
         IN  SubSeq(snapshot.manifest, last + 1, Len(snapshot.manifest))

\* the artifacts of a run in the order of their creation
CreationOrder ==
    <<"cruise_history.zip", "cruise_index.csv">> \o
    [k \in 1..Len(get_files) |->
        get_files[k][1][1] \o "_" \o get_files[k][1][2] \o ".zip"]

\* the rows of the run name the artifacts in creation order, and each row
\* gives the size and the hash of its artifact as it stands, a category
\* archive holding an entry for every name of its key
RowsInOrder ==
    snapshot.manifest # <<>> =>
        LET rows == RunRows
        IN  /\ IsPrefix([k \in 1..Len(rows) |-> rows[k][1]], CreationOrder)
            /\ \A k \in 1..Len(rows) :
                  /\ DictHas(snapshot.files, rows[k][1])
                  /\ LET content == DictGet(snapshot.files, rows[k][1])
                     IN  /\ rows[k][2] = SizeOf(content)
                         /\ rows[k][3] = HashOf(content)
                         /\ k > 2 => Len(content) = Len(get_files[k - 2][2])

\* C19: the manifest only grows at its end: the lines it holds are never
\* changed or reordered; the records of a run are in the order
\* cruise_history.zip, cruise_index.csv, then the category archives in
\* the key insertion order of the naming table; each record is appended
\* when its artifact is complete and gives the size and hash the artifact
\* has from then on to the end of the run.
ManifestAppendOnly ==
    /\ []RowsInOrder
    /\ [][(snapshot.exists /\ snapshot'.exists) =>
              IsPrefix(snapshot.manifest, snapshot'.manifest)]_vars

\* a run has completed with two category archives in a directory that an
\* earlier run of the same date has used
ManifestWitness ==
    /\ pc = "done"
    /\ Cardinality(Headers) = 2
    /\ Len(RunRows) = 4

====
